---- MODULE Spec2Model ----
(***************************************************************************)
(* A model of export_to_jxf (src/main.py): the encoder that writes a NumPy *)
(* ndarray as a Max/MSP Jitter matrix file (.jxf).  One call is followed   *)
(* statement by statement: dtype resolution, the dtype check, the default  *)
(* filename, the header plan, the size arithmetic, the open of the sink,   *)
(* every f.write in the order of the source, and the exit of the `with`    *)
(* block.  The file is modelled byte for byte.                             *)
(***************************************************************************)
EXTENDS Integers, Sequences, FiniteSets, TLC

\* ------------------------------------------------------------------ bounds
\* The longest shape an input array has (its rank).
MaxRank == 4
\* The largest length of one axis.
MaxDim == 3
\* The largest number of elements of an input array.
MaxElems == 12
\* The element patterns an input array is filled with are 0..MaxSeed.
MaxSeed == 0

\* ------------------------------------------------------- program constants
\* The size field of the FVER chunk (struct.pack('>I', 12)).
FVER_SIZE == 12
\* JIT_BIN_VERSION_1, 0x3C93DC80.
JIT_BIN_VERSION_1 == 1016323200

\* ------------------------------------------------------------ numpy dtypes
DTypes ==
  {"uint8", "int8", "int32", "int64", "uint16", "bool",
   "float16", "float32", "float64", "S1", "S2", "complex128", "U1", "object"}

\* numpy's dtype.kind.
Kind(dt) ==
  CASE dt \in {"int8", "int32", "int64"} -> "i"
    [] dt \in {"uint8", "uint16"} -> "u"
    [] dt = "bool" -> "b"
    [] dt \in {"float16", "float32", "float64"} -> "f"
    [] dt \in {"S1", "S2"} -> "S"
    [] dt = "complex128" -> "c"
    [] dt = "U1" -> "U"
    [] OTHER -> "O"

\* numpy's dtype.itemsize, in bytes.
ItemSize(dt) ==
  CASE dt \in {"uint8", "int8", "bool", "S1"} -> 1
    [] dt \in {"uint16", "float16", "S2"} -> 2
    [] dt \in {"int32", "float32", "U1"} -> 4
    [] dt \in {"int64", "float64", "object"} -> 8
    [] OTHER -> 16

\* Sample element values of each dtype.  A float is an integer-valued float,
\* a bytes element is the code of its first character.
SampleValues(dt) ==
  CASE dt = "uint8" -> <<1, 255, 0, 128>>
    [] dt = "int8" -> <<-1, 5, -128, 127>>
    [] dt = "int32" -> <<300, -1, 7, 65543>>
    [] dt = "int64" -> <<256, -257, 1000000, 3>>
    [] dt = "uint16" -> <<65535, 256, 3, 0>>
    [] dt = "bool" -> <<1, 0>>
    [] dt \in {"float16", "float32", "float64"} -> <<1, -3, 0, 2>>
    [] dt \in {"S1", "S2"} -> <<97, 98>>
    [] OTHER -> <<0, 1>>

RECURSIVE Prod(_)
Prod(s) == IF s = <<>> THEN 1 ELSE Head(s) * Prod(Tail(s))

Shapes ==
  {s \in UNION {[1..n -> 1..MaxDim] : n \in 0..MaxRank} : Prod(s) <= MaxElems}

MakeData(dt, n, seed) ==
  LET S == SampleValues(dt)
  IN  [i \in 1..n |-> S[((seed + i - 1) % Len(S)) + 1]]

\* An ndarray: its dtype, its shape and its elements in row-major order.
MakeArray(dt, shape, seed) ==
  [dtype |-> dt, shape |-> shape, data |-> MakeData(dt, Prod(shape), seed)]

ndim(m) == Len(m.shape)
nbytes(m) == Prod(m.shape) * ItemSize(m.dtype)

\* ------------------------------------------------------------------- bytes
RECURSIVE Pow2(_)
Pow2(n) == IF n = 0 THEN 1 ELSE 2 * Pow2(n - 1)

RECURSIVE Log2(_)
Log2(a) == IF a <= 1 THEN 0 ELSE 1 + Log2(a \div 2)

Abs(v) == IF v < 0 THEN -v ELSE v

\* struct.pack('>I', v): four bytes, most significant first.  (The same bytes
\* are the two's complement '>i4' of a negative v: \div rounds down.)
Pack(v) ==
  <<(v \div 16777216) % 256, (v \div 65536) % 256, (v \div 256) % 256, v % 256>>

\* The uint32 four big-endian bytes stand for.
Unpack(b) == ((b[1] * 256 + b[2]) * 256 + b[3]) * 256 + b[4]

\* IEEE 754 binary32 of an integer-valued float with |v| < 2^24, big-endian.
F32BE(v) ==
  IF v = 0 THEN <<0, 0, 0, 0>>
  ELSE LET a == Abs(v)
           e == Log2(a)
           E == e + 127
           mant == (a - Pow2(e)) * Pow2(23 - e)
           sign == IF v < 0 THEN 128 ELSE 0
       IN  <<sign + (E \div 2), (E % 2) * 128 + (mant \div 65536),
             (mant \div 256) % 256, mant % 256>>

\* IEEE 754 binary64 of an integer-valued float with |v| < 2^12, big-endian.
F64BE(v) ==
  IF v = 0 THEN <<0, 0, 0, 0, 0, 0, 0, 0>>
  ELSE LET a == Abs(v)
           e == Log2(a)
           E == e + 1023
           top == (a - Pow2(e)) * Pow2(12 - e)
           sign == IF v < 0 THEN 128 ELSE 0
       IN  <<sign + (E \div 16), (E % 16) * 16 + (top \div 256), top % 256,
             0, 0, 0, 0, 0>>

\* The four-character codes of the format, as ASCII.
TagBytes(t) ==
  CASE t = "FORM" -> <<70, 79, 82, 77>>
    [] t = "JIT!" -> <<74, 73, 84, 33>>
    [] t = "FVER" -> <<70, 86, 69, 82>>
    [] t = "MTRX" -> <<77, 84, 82, 88>>
    [] t = "CHAR" -> <<67, 72, 65, 82>>
    [] t = "LONG" -> <<76, 79, 78, 71>>
    [] t = "FL32" -> <<70, 76, 51, 50>>
    [] t = "FL64" -> <<70, 76, 54, 52>>
    [] OTHER -> <<>>

RECURSIVE Flatten(_)
Flatten(ss) == IF ss = <<>> THEN <<>> ELSE Head(ss) \o Flatten(Tail(ss))

\* ndarray.astype: one element converted.  Integers narrow by wrapping; the
\* sample floats are exact in every float width.
Cast(to, v) ==
  CASE to = "uint8" -> v % 256
    [] to = "int32" -> v
    [] OTHER -> v

astype(m, to) ==
  [m EXCEPT !.dtype = to, !.data = [i \in DOMAIN m.data |-> Cast(to, m.data[i])]]

\* One element's bytes under a dtype of stated byte order.
ElemBytes(dt, v) ==
  CASE dt \in {"uint8", "S1"} -> <<v>>
    [] dt = "S2" -> <<v, 0>>
    [] dt = ">i4" -> Pack(v)
    [] dt = ">f4" -> F32BE(v)
    [] dt = ">f8" -> F64BE(v)
    [] OTHER -> <<>>

\* ndarray.tobytes().
tobytes(m) == Flatten([i \in DOMAIN m.data |-> ElemBytes(m.dtype, m.data[i])])

Reverse(s) == [i \in 1..Len(s) |-> s[Len(s) + 1 - i]]

Min(a, b) == IF a < b THEN a ELSE b

\* ----------------------------------------------------------------- state
VARIABLES
  pc,                 \* the statement the call is at
  arg,                \* the ndarray the caller passed
  matrix,             \* the local `matrix` (rebound by the coercions)
  filename,           \* the local `filename` ("None" until defaulted)
  matrix_type,        \* the wire-type tag, "unset" before it is assigned
  plane_count, dim_count, dimensions,
  matrix_data_size, matrix_header_size, matrix_chunk_size, total_file_size,
  dim_i,              \* the position of `for dim in dimensions`
  f,                  \* the file object: "unopened", "open" or "closed"
  fs,                 \* the file system: name -> [exists, content]
  log,                \* the f.write calls that succeeded, in order
  exc, exc_line       \* the exception the call raised, and the line raising it

plan == <<matrix_type, plane_count, dim_count, dimensions>>
sizes ==
  <<matrix_data_size, matrix_header_size, matrix_chunk_size, total_file_size>>
sink == <<f, fs, log>>
vars ==
  <<pc, arg, matrix, filename, plan, sizes, dim_i, sink, exc, exc_line>>

\* The name datetime.now().strftime("%Y%m%d%H%M%S") + ".jxf" gives.
DefaultName == "20240101000000.jxf"
ExplicitName == "out.jxf"
Filenames == {ExplicitName, DefaultName}

OldContent == <<9, 9, 9>>
\* Before the call: the explicit name holds an older file, the default name
\* does not exist.
InitialFs ==
  [n \in Filenames |->
     IF n = ExplicitName THEN [exists |-> TRUE, content |-> OldContent]
     ELSE [exists |-> FALSE, content |-> <<>>]]

NoArray == [dtype |-> "none", shape |-> <<>>, data |-> <<>>]

Init ==
  /\ pc = "idle"
  /\ arg = NoArray
  /\ matrix = NoArray
  /\ filename = "None"
  /\ matrix_type = "unset"
  /\ plane_count = -1
  /\ dim_count = -1
  /\ dimensions = <<>>
  /\ matrix_data_size = -1
  /\ matrix_header_size = -1
  /\ matrix_chunk_size = -1
  /\ total_file_size = -1
  /\ dim_i = 0
  /\ f = "unopened"
  /\ fs = InitialFs
  /\ log = <<>>
  /\ exc = "none"
  /\ exc_line = 0

\* raise: the call ends with the exception, at the line raising it.
Raise(e, line) ==
  /\ exc' = e
  /\ exc_line' = line
  /\ pc' = "done"

\* --------------------------------------------------------- type resolution
Resolved(m, t) == [exc |-> "none", line |-> 0, matrix |-> m, matrix_type |-> t]
Failed(m, line) ==
  [exc |-> "ValueError", line |-> line, matrix |-> m, matrix_type |-> "unset"]

\* Resolve with the first branch lost: a generic integer falls through to the
\* int32 branch and becomes LONG.
ResolveIntToLong(m) ==
  IF Kind(m.dtype) = "f" /\ m.dtype # "float32"
    THEN Resolved(astype(m, "float32"), "FL32")
  ELSE IF m.dtype = "uint8" THEN Resolved(m, "CHAR")
  ELSE IF m.dtype = "float32" THEN Resolved(m, "FL32")
  ELSE IF Kind(m.dtype) \in {"i", "u", "b"}
    THEN Resolved(astype(m, "int32"), "LONG")
  ELSE Failed(m, 37)

\* Resolve with complex taken for a float kind: it is narrowed to float32
\* instead of being rejected.
ResolveComplexAsFloat(m) ==
  IF Kind(m.dtype) \in {"i", "u", "b"} /\ m.dtype # "uint8"
    THEN Resolved(astype(m, "uint8"), "CHAR")
  ELSE IF Kind(m.dtype) \in {"f", "c"} /\ m.dtype # "float32"
    THEN Resolved(astype(m, "float32"), "FL32")
  ELSE IF m.dtype = "uint8" THEN Resolved(m, "CHAR")
  ELSE IF m.dtype = "float32" THEN Resolved(m, "FL32")
  ELSE Failed(m, 37)

\* The if/elif chain on matrix.dtype.
Resolve(m) ==
  IF Kind(m.dtype) \in {"i", "u", "b"} /\ m.dtype # "uint8"
    THEN Resolved(astype(m, "uint8"), "CHAR")
  ELSE IF Kind(m.dtype) = "f" /\ m.dtype # "float32"
    THEN Resolved(astype(m, "float32"), "FL32")
  ELSE IF Kind(m.dtype) = "S"
    THEN LET buf == tobytes(m)
         IN  \* reshape raises when the buffer's size is not the shape's
             IF Len(buf) = Prod(m.shape)
               THEN Resolved([dtype |-> "uint8", shape |-> m.shape,
                              data |-> buf], "CHAR")
               ELSE Failed(m, 24)
  ELSE IF m.dtype = "uint8" THEN Resolved(m, "CHAR")
  ELSE IF m.dtype = "float32" THEN Resolved(m, "FL32")
  ELSE IF Kind(m.dtype) = "i" THEN Resolved(astype(m, "int32"), "LONG")
  ELSE IF m.dtype = "float64" THEN Resolved(astype(m, "float64"), "FL64")
  ELSE Failed(m, 37)

\* ------------------------------------------------------------------ steps
\* export_to_jxf(matrix, filename) is called.
Call ==
  /\ pc = "idle"
  /\ \E dt \in DTypes, shape \in Shapes, seed \in 0..MaxSeed,
        name \in {"None", ExplicitName} :
       /\ arg' = MakeArray(dt, shape, seed)
       /\ matrix' = MakeArray(dt, shape, seed)
       /\ filename' = name
  /\ pc' = "resolve"
  /\ UNCHANGED <<plan, sizes, dim_i, sink, exc, exc_line>>

\* Coerce ints, floats, and chars if needed.
ResolveType ==
  /\ pc = "resolve"
  /\ LET r == Resolve(matrix)
     IN  /\ matrix' = r.matrix
         /\ matrix_type' = r.matrix_type
         /\ IF r.exc = "none"
              THEN pc' = "check" /\ UNCHANGED <<exc, exc_line>>
              ELSE Raise(r.exc, r.line)
  /\ UNCHANGED <<arg, filename, plane_count, dim_count, dimensions, sizes,
                 dim_i, sink>>

\* Check if the data type is supported (float32 or uint8).
CheckSupported ==
  /\ pc = "check"
  /\ IF matrix.dtype \notin {"float32", "uint8"}
       THEN Raise("ValueError", 41)
       ELSE pc' = "filename" /\ UNCHANGED <<exc, exc_line>>
  /\ UNCHANGED <<arg, matrix, filename, plan, sizes, dim_i, sink>>

\* Create filename.
MakeFilename ==
  /\ pc = "filename"
  /\ filename' = IF filename = "None" THEN DefaultName ELSE filename
  /\ pc' = "header"
  /\ UNCHANGED <<arg, matrix, plan, sizes, dim_i, sink, exc, exc_line>>

\* Prepare header information: the match on matrix.dtype, then plane_count,
\* dim_count and dimensions.  matrix.shape[2] raises IndexError below rank 3.
PrepareHeader ==
  /\ pc = "header"
  /\ IF matrix.dtype \notin {"uint8", "float32"}
       THEN /\ Raise("ValueError", 55)
            /\ UNCHANGED plan
     ELSE IF ndim(matrix) # 2 /\ ndim(matrix) < 3
       THEN /\ Raise("IndexError", 56)
            /\ matrix_type' = (IF matrix.dtype = "uint8" THEN "CHAR" ELSE "FL32")
            /\ UNCHANGED <<plane_count, dim_count, dimensions>>
     ELSE /\ matrix_type' = (IF matrix.dtype = "uint8" THEN "CHAR" ELSE "FL32")
          /\ plane_count' = (IF ndim(matrix) = 2 THEN 1 ELSE matrix.shape[3])
          /\ dim_count' = (IF ndim(matrix) = 2 THEN 2 ELSE 3)
          /\ dimensions' = Reverse(SubSeq(matrix.shape, 1, Min(2, ndim(matrix))))
          /\ pc' = "sizes"
          /\ UNCHANGED <<exc, exc_line>>
  /\ UNCHANGED <<arg, matrix, filename, sizes, dim_i, sink>>

\* Calculate sizes.
CalcSizes ==
  /\ pc = "sizes"
  /\ matrix_data_size' = nbytes(matrix)
  /\ matrix_header_size' = 24 + (4 * dim_count)
  /\ matrix_chunk_size' = (24 + (4 * dim_count)) + nbytes(matrix)
  /\ total_file_size' = 20 + 20 + ((24 + (4 * dim_count)) + nbytes(matrix))
  /\ pc' = "open"
  /\ UNCHANGED <<arg, matrix, filename, plan, dim_i, sink, exc, exc_line>>

\* open(filename, 'wb') succeeds: the file is created or truncated.
Open ==
  /\ pc = "open"
  /\ f' = "open"
  /\ fs' = [fs EXCEPT ![filename] = [exists |-> TRUE, content |-> <<>>]]
  /\ pc' = "w69"
  /\ UNCHANGED <<arg, matrix, filename, plan, sizes, dim_i, log, exc, exc_line>>

\* open(filename, 'wb') fails (permissions, invalid path): OSError.
OpenFails ==
  /\ pc = "open"
  /\ Raise("OSError", 67)
  /\ UNCHANGED <<arg, matrix, filename, plan, sizes, dim_i, sink>>

\* f.write(bytes) succeeds, and the call goes on at `next`.
Emit(field, bytes, next) ==
  /\ f = "open"
  /\ fs' = [fs EXCEPT ![filename].content = @ \o bytes]
  /\ log' = Append(log, [field |-> field, bytes |-> bytes])
  /\ pc' = next
  /\ UNCHANGED <<arg, matrix, filename, plan, sizes, f, exc, exc_line>>

\* Write Container Chunk.
WriteFORM == pc = "w69" /\ Emit("FORM", TagBytes("FORM"), "w70") /\ UNCHANGED dim_i
WriteTotalSize ==
  pc = "w70" /\ Emit("total_size", Pack(total_file_size - 8), "w71") /\ UNCHANGED dim_i
WriteJIT == pc = "w71" /\ Emit("JIT!", TagBytes("JIT!"), "w74") /\ UNCHANGED dim_i

\* Write Format Chunk.
WriteFVER == pc = "w74" /\ Emit("FVER", TagBytes("FVER"), "w75") /\ UNCHANGED dim_i
WriteFverSize == pc = "w75" /\ Emit("fver_size", Pack(FVER_SIZE), "w76") /\ UNCHANGED dim_i
WriteVersion ==
  pc = "w76" /\ Emit("version", Pack(JIT_BIN_VERSION_1), "w79") /\ UNCHANGED dim_i

\* Write Matrix Chunk.
WriteMTRX == pc = "w79" /\ Emit("MTRX", TagBytes("MTRX"), "w80") /\ UNCHANGED dim_i
WriteChunkSize ==
  pc = "w80" /\ Emit("matrix_chunk_size", Pack(matrix_chunk_size), "w81") /\ UNCHANGED dim_i
WriteHeaderSize ==
  pc = "w81" /\ Emit("matrix_header_size", Pack(matrix_header_size), "w82") /\ UNCHANGED dim_i
WriteType == pc = "w82" /\ Emit("matrix_type", TagBytes(matrix_type), "w83") /\ UNCHANGED dim_i
\* Lines 83 and 84 swapped: dim_count is written where plane_count belongs.
WriteDimCountFirst ==
  pc = "w83" /\ Emit("dim_count", Pack(dim_count), "w84") /\ UNCHANGED dim_i
WritePlaneCount ==
  pc = "w83" /\ Emit("plane_count", Pack(plane_count), "w84") /\ UNCHANGED dim_i
\* After dim_count the loop over dimensions starts (or is skipped when empty).
WriteDimCount ==
  /\ pc = "w84"
  /\ Emit("dim_count", Pack(dim_count), IF dimensions = <<>> THEN "w89" ELSE "w86")
  /\ dim_i' = 1

\* for dim in dimensions: f.write(struct.pack('>I', dim)).
WriteDim ==
  /\ pc = "w86"
  /\ Emit("dim", Pack(dimensions[dim_i]),
          IF dim_i < Len(dimensions) THEN "w86" ELSE "w89")
  /\ dim_i' = dim_i + 1

\* The bytes of the payload: Write matrix data based on type.
Payload(m, t) ==
  CASE t = "CHAR" -> tobytes(m)
    [] t = "LONG" -> tobytes(astype(m, ">i4"))
    [] t = "FL32" -> tobytes(astype(m, ">f4"))
    [] t = "FL64" -> tobytes(astype(m, ">f8"))
    [] OTHER -> <<>>

\* No branch of the if/elif chain matches a tag other than the four: nothing
\* is written then.
WriteData ==
  /\ pc = "w89"
  /\ IF matrix_type \in {"CHAR", "LONG", "FL32", "FL64"}
       THEN Emit("payload", Payload(matrix, matrix_type), "exit")
       ELSE pc' = "exit" /\ UNCHANGED <<arg, matrix, filename, plan, sizes,
                                        sink, exc, exc_line>>
  /\ UNCHANGED dim_i

WritePcs ==
  {"w69", "w70", "w71", "w74", "w75", "w76", "w79", "w80", "w81", "w82",
   "w83", "w84", "w86", "w89"}

\* The source line of a write statement.
LineOf(p) ==
  CASE p = "w69" -> 69 [] p = "w70" -> 70 [] p = "w71" -> 71 [] p = "w74" -> 74
    [] p = "w75" -> 75 [] p = "w76" -> 76 [] p = "w79" -> 79 [] p = "w80" -> 80
    [] p = "w81" -> 81 [] p = "w82" -> 82 [] p = "w83" -> 83 [] p = "w84" -> 84
    [] p = "w86" -> 86 [] OTHER -> 90

\* An f.write raises (disk full, I/O error): the exception leaves the with
\* block.  The failed write is taken to have written nothing.
WriteFails ==
  /\ pc \in WritePcs
  /\ exc' = "OSError"
  /\ exc_line' = LineOf(pc)
  /\ pc' = "exit"
  /\ UNCHANGED <<arg, matrix, filename, plan, sizes, dim_i, sink>>

\* An open()/close() pair without the with block: an exception skips close().
SinkLeftOpenOnError(e) == IF e = "none" THEN "closed" ELSE "open"

\* The file object after the with block's __exit__, entered with exception e
\* pending ("none" on the normal path): closed either way.
SinkAfterExit(e) == "closed"

\* The end of `with open(...) as f`: the file is closed, then the call returns
\* or the pending exception propagates.
WithExit ==
  /\ pc = "exit"
  /\ f' = SinkAfterExit(exc)
  /\ pc' = "done"
  /\ UNCHANGED <<arg, matrix, filename, plan, sizes, dim_i, fs, log, exc, exc_line>>

Next ==
  \/ Call
  \/ ResolveType
  \/ CheckSupported
  \/ MakeFilename
  \/ PrepareHeader
  \/ CalcSizes
  \/ Open
  \/ OpenFails
  \/ WriteFORM
  \/ WriteTotalSize
  \/ WriteJIT
  \/ WriteFVER
  \/ WriteFverSize
  \/ WriteVersion
  \/ WriteMTRX
  \/ WriteChunkSize
  \/ WriteHeaderSize
  \/ WriteType
  \/ WritePlaneCount
  \/ WriteDimCount
  \/ WriteDim
  \/ WriteData
  \/ WriteFails
  \/ WithExit

Spec == Init /\ [][Next]_vars

\* ----------------------------------------------------------------- claims
Returned == pc = "done" /\ exc = "none"
\* The bytes of the destination file.
Content == fs[filename].content
\* The uint32 at byte offset `off` (from 0) of the destination file.
FieldAt(off) == Unpack(SubSeq(Content, off + 1, off + 4))
\* The statements before the header plan is complete.
PrePlanPcs == {"idle", "resolve", "check", "filename", "header"}
IntegerKinds == {"i", "u", "b"}

\* C1: for every array that is encoded successfully, the uint32 in the FORM
\* chunk's size field equals the number of bytes emitted to the file minus 8.
C1_FormSizeIsBytesMinus8 ==
  (Returned /\ ndim(arg) \in {2, 3}) => FieldAt(4) = Len(Content) - 8

\* C2: a float64 array is accepted and resolves to FL64 with no coercion: the
\* tag written is FL64 and the elements keep their 8-byte width.
C2_Float64IsFL64 ==
  (arg.dtype = "float64" /\ ndim(arg) \in {2, 3}
   /\ pc \notin {"idle", "resolve"}) =>
    /\ matrix_type = "FL64"
    /\ ItemSize(matrix.dtype) = 8
    /\ Returned => SubSeq(Content, 37, 40) = TagBytes("FL64")

\* C3: exporting a rank-2 int32 array raises ValueError instead of completing
\* (sink failures aside).
C3_Int32Raises ==
  (arg.dtype = "int32" /\ ndim(arg) = 2 /\ pc = "done" /\ exc # "OSError") =>
    exc = "ValueError"

C5_BadRankRaisesValueError ==
  (pc # "idle" /\ ndim(arg) \notin {2, 3}
   /\ Kind(arg.dtype) \in IntegerKinds \cup {"f"}) =>
    /\ f = "unopened"
    /\ fs = InitialFs
    /\ pc \in PrePlanPcs \cup {"done"}
    /\ pc = "done" => exc = "ValueError"

\* C6: a rank-3 array of shape (H, W, 3) is planned and written with
\* plane_count 4 and dim_count 2, and the payload carries for every pixel a
\* fourth channel of the wire type's maximum (255 for CHAR).
C6_ColorImagePadded ==
  (ndim(arg) = 3 /\ pc \notin PrePlanPcs /\ exc = "none") =>
    (arg.shape[3] = 3 =>
       /\ plane_count = 4
       /\ dim_count = 2
       /\ Returned =>
            /\ FieldAt(40) = 4
            /\ FieldAt(44) = 2
            /\ LET pay == log[Len(log)].bytes
               IN  /\ Len(pay) = arg.shape[1] * arg.shape[2] * 4 * ItemSize(matrix.dtype)
                   /\ matrix_type = "CHAR" =>
                        \A k \in 1..(arg.shape[1] * arg.shape[2]) : pay[4 * k] = 255)

\* C7: an array whose element kind has no wire-type mapping is rejected with
\* ValueError before the destination is opened: no file is created or
\* truncated and no byte is written, with an explicit or a defaulted filename.
C7_UnsupportedKindWritesNothing ==
  (pc # "idle" /\ Kind(arg.dtype) \in {"c", "U", "O"}) =>
    /\ f = "unopened"
    /\ fs = InitialFs
    /\ log = <<>>
    /\ pc \in {"resolve", "done"}
    /\ pc = "done" => exc = "ValueError" /\ exc_line = 37

C7_Witness ==
  /\ pc = "done"
  /\ arg.dtype = "complex128"
  /\ ndim(arg) = 2
  /\ exc = "ValueError"
  /\ filename = ExplicitName
  /\ fs[ExplicitName].content = OldContent

\* C8: when the call has exited, normally or with an exception raised by any
\* write, the file it opened is closed; the file is open only inside the with
\* block.
C8_SinkReleased ==
  /\ pc = "done" => f # "open"
  /\ pc = "done" /\ log # <<>> => f = "closed"
  /\ f = "open" => pc \in WritePcs \cup {"exit"}

C8_Witness ==
  /\ pc = "done"
  /\ exc = "OSError"
  /\ exc_line = 86
  /\ Len(log) = 13
  /\ f = "closed"

\* The fields of a file in the order the format fixes, with the values of
\* the plan.
ExpectedFields ==
  << [field |-> "FORM", bytes |-> TagBytes("FORM")],
     [field |-> "total_size", bytes |-> Pack(total_file_size - 8)],
     [field |-> "JIT!", bytes |-> TagBytes("JIT!")],
     [field |-> "FVER", bytes |-> TagBytes("FVER")],
     [field |-> "fver_size", bytes |-> <<0, 0, 0, 12>>],
     [field |-> "version", bytes |-> <<60, 147, 220, 128>>],
     [field |-> "MTRX", bytes |-> TagBytes("MTRX")],
     [field |-> "matrix_chunk_size", bytes |-> Pack(matrix_chunk_size)],
     [field |-> "matrix_header_size", bytes |-> Pack(matrix_header_size)],
     [field |-> "matrix_type", bytes |-> TagBytes(matrix_type)],
     [field |-> "plane_count", bytes |-> Pack(plane_count)],
     [field |-> "dim_count", bytes |-> Pack(dim_count)] >>
  \o [i \in 1..Len(dimensions) |-> [field |-> "dim", bytes |-> Pack(dimensions[i])]]
  \o << [field |-> "payload", bytes |-> Payload(matrix, matrix_type)] >>

\* C9: the writes happen in exactly the order FORM, container size, JIT!,
\* FVER, 12, 0x3C93DC80, MTRX, matrix_chunk_size, matrix_header_size, the
\* wire-type tag, plane_count, dim_count, the dimensions in plan order, the
\* payload, with nothing in between: at every moment the writes so far are a
\* prefix of that list, the file holds exactly their bytes, and a successful
\* call has written the whole list.
C9_EmissionOrder ==
  LET expected == ExpectedFields
  IN  /\ Len(log) <= Len(expected)
      /\ log = SubSeq(expected, 1, Len(log))
      /\ (f # "unopened" /\ exc = "none") =>
           Content = Flatten([i \in 1..Len(log) |-> log[i].bytes])
      /\ Returned => Len(log) = Len(expected)

C9_Witness ==
  /\ Returned
  /\ ndim(arg) = 3
  /\ Len(log) = 15
  /\ Len(log[15].bytes) > 0

\* C10: for every encoded array of rank 2 or 3, the number of dimension values
\* written equals the dim_count written before them, the bytes from the MTRX
\* tag up to the payload equal matrix_header_size = 24 + 4 x dim_count, and
\* the bytes of the whole matrix chunk equal the recorded matrix_chunk_size.
C10_HeaderMatchesDimCount ==
  (Returned /\ ndim(arg) \in {2, 3}) =>
    LET written == Cardinality({i \in DOMAIN log : log[i].field = "dim"})
        pay == log[Len(log)].bytes
    IN  /\ written = FieldAt(44)
        /\ FieldAt(32) = 24 + 4 * FieldAt(44)
        /\ Len(Content) - 24 - Len(pay) = FieldAt(32)
        /\ Len(Content) - 24 = FieldAt(28)

====
